---- MODULE Spec2Model ----
(***************************************************************************)
(* Model of robusta_krr/main.py: the typer command-line entry point.       *)
(*                                                                         *)
(* run() first executes load_commands(), which registers one command per   *)
(* strategy of BaseStrategy.get_all(), each with the fixed options of      *)
(* run_strategy followed by one option per field of the strategy's         *)
(* settings schema, and then starts the typer application, which calls     *)
(* exactly one registered command.  A strategy command builds a Config,    *)
(* commits it with Config.set_config and runs the Runner.                  *)
(***************************************************************************)
EXTENDS Naturals, Sequences, FiniteSets, TLC

(***************************************************************************)
(* Bounds of the model.                                                    *)
(***************************************************************************)
\* longest registry BaseStrategy.get_all() returns
MaxStrategies == 3
\* deepest nesting of Optional[...] around a declared field type
MaxDepth == 2
\* longest --namespace / --resource list given on the command line
MaxLen == 2
\* longest --context list given on the command line
MaxClusters == 2

Range(s) == {s[k] : k \in 1..Len(s)}

SeqsUpTo(S, n) == UNION {[1..k -> S] : k \in 0..n}

(***************************************************************************)
(* Python values that reach the handler as list options: None, a str, or   *)
(* a list of str.  The payload is always a sequence so that values of      *)
(* different Python types stay comparable.                                 *)
(***************************************************************************)
PyNone == [t |-> "None", v |-> <<>>]

PyStr(s) == [t |-> "str", v |-> <<s>>]

PyList(l) == [t |-> "list", v |-> l]

(***************************************************************************)
(* Declared types.  wrap counts the Optional[...] wrappers around base;    *)
(* base is one of the six primitives, "object" for any other class, or     *)
(* "Optional" for the bare special form typing.Optional, which cannot be   *)
(* wrapped.                                                                *)
(***************************************************************************)
Primitives == {"int", "float", "str", "bool", "datetime", "UUID"}

PyType(w, b) == [wrap |-> w, base |-> b]

Types ==
    {PyType(w, b) : w \in 0..MaxDepth, b \in Primitives \cup {"object"}}
        \cup {PyType(0, "Optional")}

\* the T of Optional[T]
OptionalArg(_T) == PyType(_T.wrap - 1, _T.base)

(***************************************************************************)
(* __process_type, lines 34-41.  `_T in (int, ...)` holds for the six      *)
(* classes themselves; `_T is Optional` holds for the bare special form    *)
(* only, and there `_T.__args__` raises AttributeError; every other        *)
(* object, Optional[T] included, takes the else branch.                    *)
(***************************************************************************)
process_type(_T) ==
    IF _T.wrap = 0 /\ _T.base \in Primitives
    THEN [raised |-> "", type |-> _T.base]
    ELSE IF _T.wrap = 0 /\ _T.base = "Optional"
         THEN [raised |-> "AttributeError", type |-> ""]
         ELSE [raised |-> "", type |-> "str"]

(***************************************************************************)
(* The signature of run_strategy, lines 48-234: ctx, the fixed options     *)
(* with their flags, and **strategy_args.                                  *)
(***************************************************************************)
Param(n, k, f, a, p) ==
    [name |-> n, kind |-> k, flags |-> f, annotation |-> a, panel |-> p]

GlobalOption(n, f, a, p) == Param(n, "POSITIONAL_OR_KEYWORD", f, a, p)

run_strategy_signature ==
    << Param("ctx", "POSITIONAL_OR_KEYWORD", {}, "typer.Context", ""),
       GlobalOption("kubeconfig", {"--kubeconfig", "-k"}, "Optional[str]", "Kubernetes Settings"),
       GlobalOption("clusters", {"--context", "--cluster", "-c"}, "List[str]", "Kubernetes Settings"),
       GlobalOption("all_clusters", {"--all-clusters"}, "bool", "Kubernetes Settings"),
       GlobalOption("namespaces", {"--namespace", "-n"}, "List[str]", "Kubernetes Settings"),
       GlobalOption("resources", {"--resource", "-r"}, "List[str]", "Kubernetes Settings"),
       GlobalOption("selector", {"--selector", "-s"}, "Optional[str]", "Kubernetes Settings"),
       GlobalOption("prometheus_url", {"--prometheus-url", "-p"}, "Optional[str]", "Prometheus Settings"),
       GlobalOption("prometheus_auth_header", {"--prometheus-auth-header"}, "Optional[str]", "Prometheus Settings"),
       GlobalOption("prometheus_other_headers", {"--prometheus-headers", "-H"}, "Optional[List[str]]", "Prometheus Settings"),
       GlobalOption("prometheus_ssl_enabled", {"--prometheus-ssl-enabled"}, "bool", "Prometheus Settings"),
       GlobalOption("prometheus_cluster_label", {"--prometheus-cluster-label", "-l"}, "Optional[str]", "Prometheus Settings"),
       GlobalOption("prometheus_label", {"--prometheus-label"}, "str", "Prometheus Settings"),
       GlobalOption("eks_managed_prom", {"--eks-managed-prom"}, "bool", "Prometheus EKS Settings"),
       GlobalOption("eks_managed_prom_profile_name", {"--eks-profile-name"}, "Optional[str]", "Prometheus EKS Settings"),
       GlobalOption("eks_access_key", {"--eks-access-key"}, "Optional[str]", "Prometheus EKS Settings"),
       GlobalOption("eks_secret_key", {"--eks-secret-key"}, "Optional[str]", "Prometheus EKS Settings"),
       GlobalOption("eks_service_name", {"--eks-service-name"}, "Optional[str]", "Prometheus EKS Settings"),
       GlobalOption("eks_managed_prom_region", {"--eks-managed-prom-region"}, "Optional[str]", "Prometheus EKS Settings"),
       GlobalOption("coralogix_token", {"--coralogix-token"}, "Optional[str]", "Prometheus Coralogix Settings"),
       GlobalOption("openshift", {"--openshift"}, "bool", "Prometheus Openshift Settings"),
       GlobalOption("cpu_min_value", {"--cpu-min"}, "int", "Recommendation Settings"),
       GlobalOption("memory_min_value", {"--mem-min"}, "int", "Recommendation Settings"),
       GlobalOption("max_workers", {"--max-workers", "-w"}, "int", "Threading Settings"),
       GlobalOption("format", {"--formatter", "-f"}, "str", "Logging Settings"),
       GlobalOption("show_cluster_name", {"--show-cluster-name"}, "bool", "Output Settings"),
       GlobalOption("verbose", {"--verbose", "-v"}, "bool", "Logging Settings"),
       GlobalOption("quiet", {"--quiet", "-q"}, "bool", "Logging Settings"),
       GlobalOption("log_to_stderr", {"--logtostderr"}, "bool", "Logging Settings"),
       GlobalOption("width", {"--width"}, "Optional[int]", "Logging Settings"),
       GlobalOption("file_output", {"--fileoutput"}, "Optional[str]", "Output Settings"),
       GlobalOption("slack_output", {"--slackoutput"}, "Optional[str]", "Output Settings"),
       Param("strategy_args", "VAR_KEYWORD", {}, "", "") >>

\* variant of line 282: the slice [:-2]
fixed_parameters_short ==
    SubSeq(run_strategy_signature, 1, Len(run_strategy_signature) - 2)

\* list(signature.parameters.values())[:-1], line 282
fixed_parameters ==
    SubSeq(run_strategy_signature, 1, Len(run_strategy_signature) - 1)

(***************************************************************************)
(* The registry BaseStrategy.get_all() returns, line 45: strategy          *)
(* descriptors in enumeration order.  raises tells whether                 *)
(* get_settings_type().__fields__ raises for the descriptor; fields is the *)
(* settings schema, field name and declared type, in schema order.         *)
(***************************************************************************)
Field(n, t) == [name |-> n, type |-> t]

Descriptor(n, r, f) == [name |-> n, raises |-> r, fields |-> f]

\* two plain fields
StrategyA ==
    Descriptor("A", FALSE, << Field("history_duration", PyType(0, "float")),
                              Field("points_required", PyType(0, "int")) >>)

\* an Optional field and a field of a class that is no primitive
StrategyB ==
    Descriptor("B", FALSE, << Field("cpu_percentile", PyType(1, "float")),
                              Field("limits", PyType(0, "object")) >>)

\* a field whose flag --context is a flag of the fixed option clusters
StrategyC == Descriptor("C", FALSE, << Field("context", PyType(0, "str")) >>)

\* a field whose name is the name of the fixed option verbose
StrategyD == Descriptor("D", FALSE, << Field("verbose", PyType(0, "bool")) >>)

\* a descriptor whose schema introspection raises
StrategyE == Descriptor("E", TRUE, << >>)

StrategyPool == {StrategyA, StrategyB, StrategyC, StrategyD, StrategyE}

\* registries of distinct strategies in any order
OrderedRegistries ==
    {r \in SeqsUpTo(StrategyPool, MaxStrategies) :
        \A j, k \in 1..Len(r) : j # k => r[j].name # r[k].name}

\* registries of one strategy with one field of any declared type
TypedRegistries ==
    {<< Descriptor("A", FALSE, << Field("history_duration", t) >>) >> : t \in Types}

Registries == OrderedRegistries \cup TypedRegistries

(***************************************************************************)
(* State.                                                                  *)
(***************************************************************************)
VARIABLES
    registry,        \* BaseStrategy.get_all().items(), in enumeration order
    pc,              \* position of the process
    i,               \* number of loop iterations of load_commands started
    strategy_name,   \* the loop variable of load_commands
    commands,        \* app.registered_commands
    error,           \* the exception that left run(), "" if none
    frame,           \* the bound arguments of the running run_strategy
    config_call,     \* the keyword arguments Config(...) was called with
    validation,      \* how Config(...) ended: "", "ok" or "failed"
    current_config,  \* the process-wide configuration of Config.set_config
    set_configs,     \* number of calls of Config.set_config
    logged,          \* number of calls of logger.exception
    runner_started,  \* number of runs of Runner().run() started
    runner_finished, \* number of runs of Runner().run() completed
    runner_config,   \* the process-wide configuration when the run started
    echoed           \* number of calls of typer.echo

loadvars == <<registry, i, strategy_name, commands>>

handlervars ==
    <<frame, config_call, validation, current_config, set_configs, logged,
      runner_started, runner_finished, runner_config, echoed>>

vars == <<loadvars, pc, error, handlervars>>

\* the command registered by the decorator of lines 29-31
version_command ==
    [name |-> "version", callback |-> "version", strategy |-> "",
     parameters |-> << >>, panel |-> "Utils"]

(***************************************************************************)
(* inspect.Signature(parameters), as called by signature.replace, line     *)
(* 281: it raises ValueError for a parameter name used twice and for a     *)
(* parameter kind that comes before a kind of lower rank.                  *)
(***************************************************************************)
KindRank(k) ==
    CASE k = "POSITIONAL_OR_KEYWORD" -> 1
      [] k = "KEYWORD_ONLY" -> 3
      [] k = "VAR_KEYWORD" -> 4

signature_valid(parameters) ==
    /\ \A j, k \in 1..Len(parameters) :
          j # k => parameters[j].name # parameters[k].name
    /\ \A j, k \in 1..Len(parameters) :
          j < k => KindRank(parameters[j].kind) <= KindRank(parameters[k].kind)

\* the inspect.Parameter of one schema field, lines 284-294
field_parameter(field) ==
    Param(field.name, "KEYWORD_ONLY", {"--" \o field.name},
          process_type(field.type).type, "Strategy Settings")

\* the parameters given to signature.replace, lines 282-296
signature_parameters(fields) ==
    fixed_parameters \o [j \in 1..Len(fields) |-> field_parameter(fields[j])]

\* variant of lines 45-301: a strategy whose schema cannot be read is skipped
strategy_wrapper_skipping(_strategy_name, loop_name, strategy_type, registered) ==
    IF strategy_type.raises
    THEN [raised |-> "", commands |-> registered]
    ELSE IF \E j \in 1..Len(strategy_type.fields) :
                process_type(strategy_type.fields[j].type).raised # ""
    THEN [raised |-> "AttributeError", commands |-> registered]
    ELSE IF ~signature_valid(signature_parameters(strategy_type.fields))
    THEN [raised |-> "ValueError", commands |-> registered]
    ELSE [raised |-> "",
          commands |-> Append(registered,
              [name |-> loop_name, callback |-> "run_strategy",
               strategy |-> _strategy_name,
               parameters |-> signature_parameters(strategy_type.fields),
               panel |-> "Strategies"])]

(***************************************************************************)
(* strategy_wrapper, lines 47-299, called once per iteration with          *)
(* _strategy_name bound to the loop variable: the result is the exception  *)
(* it raises, "" if none, and app.registered_commands afterwards.  The     *)
(* schema is read first, then each field is narrowed in schema order, then *)
(* the signature is rebuilt, then the command is registered.               *)
(***************************************************************************)
strategy_wrapper(_strategy_name, loop_name, strategy_type, registered) ==
    IF strategy_type.raises
    THEN [raised |-> "IntrospectionError", commands |-> registered]
    ELSE IF \E j \in 1..Len(strategy_type.fields) :
                process_type(strategy_type.fields[j].type).raised # ""
    THEN [raised |-> "AttributeError", commands |-> registered]
    ELSE IF ~signature_valid(signature_parameters(strategy_type.fields))
    THEN [raised |-> "ValueError", commands |-> registered]
    ELSE [raised |-> "",
          commands |-> Append(registered,
              [name |-> loop_name, callback |-> "run_strategy",
               strategy |-> _strategy_name,
               parameters |-> signature_parameters(strategy_type.fields),
               panel |-> "Strategies"])]

(***************************************************************************)
(* The values typer binds to the list options of a command: None when the  *)
(* option is absent (its declared default), else the list given.           *)
(***************************************************************************)
ClusterList(n) == [k \in 1..n |-> "c" \o ToString(k)]

ClusterInputs == {PyNone} \cup {PyList(ClusterList(n)) : n \in 0..MaxClusters}

NamespaceInputs ==
    {PyNone} \cup {PyList(l) : l \in SeqsUpTo({"*", "foo"}, MaxLen)}

ResourceInputs ==
    {PyNone} \cup {PyList(l) : l \in SeqsUpTo({"*", "Deployment"}, MaxLen)}

(***************************************************************************)
(* run_strategy, lines 237-277.                                            *)
(***************************************************************************)
\* variant of line 240: the wildcard only when no cluster list is given
clusters_argument_unless_listed(all_clusters, clusters) ==
    IF all_clusters /\ clusters.v = << >> THEN PyStr("*") ELSE clusters

\* line 240
clusters_argument(all_clusters, clusters) ==
    IF all_clusters THEN PyStr("*") ELSE clusters

\* lines 241 and 242; `"*" in None` raises TypeError
wildcard_raises(list) == list.t = "None"

\* variant of lines 241-242: the list compared with ["*"] instead of searched
wildcard_argument_alone(list) ==
    IF list.v = << "*" >> THEN PyStr("*") ELSE list

wildcard_argument(list) ==
    IF "*" \in Range(list.v) THEN PyStr("*") ELSE list

\* variant of line 269: the loop variable read when the command runs
closure_late_bound(command, loop_name) == loop_name

\* _strategy_name as run_strategy reads it, line 269: the default argument
\* of strategy_wrapper bound when the command was registered
closure_strategy_name(command, loop_name) == command.strategy

\* **strategy_args: the bound parameters that run_strategy does not name
strategy_args(command) ==
    {command.parameters[j].name : j \in
        {k \in 1..Len(command.parameters) :
            command.parameters[k].kind = "KEYWORD_ONLY"}}

\* the keyword arguments of Config(...), lines 238-271
config_arguments(f, command, loop_name) ==
    [clusters |-> clusters_argument(f.all_clusters, f.clusters),
     namespaces |-> wildcard_argument(f.namespaces),
     resources |-> wildcard_argument(f.resources),
     strategy |-> closure_strategy_name(command, loop_name),
     other_args |-> strategy_args(command)]

\* variant of lines 272-276: the Runner started without Config.set_config
after_Config_uncommitted(valid) == IF valid THEN "Runner" ELSE "except"

\* where the try statement continues after Config(...), lines 237-275
after_Config(valid) == IF valid THEN "set_config" ELSE "except"

\* variant of lines 273-277: the Runner started after the except clause
after_except_fall_through == "Runner"

\* where the handler continues after the except clause, line 274
after_except == "done"

\* where the handler continues after Config.set_config, lines 272-276
after_set_config == "Runner"

(***************************************************************************)
(* Initial state: run() is about to call load_commands(); the application  *)
(* holds the version command.                                              *)
(***************************************************************************)
Init ==
    /\ registry \in Registries
    /\ pc = "load"
    /\ i = 0
    /\ strategy_name = ""
    /\ commands = << version_command >>
    /\ error = ""
    /\ frame = << >>
    /\ config_call = << >>
    /\ validation = ""
    /\ current_config = << >>
    /\ set_configs = 0
    /\ logged = 0
    /\ runner_started = 0
    /\ runner_finished = 0
    /\ runner_config = << >>
    /\ echoed = 0

(***************************************************************************)
(* One iteration of the loop of load_commands, lines 45-301.  An exception *)
(* of strategy_wrapper leaves load_commands and run().                     *)
(***************************************************************************)
LoadStrategy ==
    /\ pc = "load"
    /\ i < Len(registry)
    /\ LET name == registry[i + 1].name
           r == strategy_wrapper(name, name, registry[i + 1], commands)
       IN /\ i' = i + 1
          /\ strategy_name' = name
          /\ commands' = r.commands
          /\ error' = r.raised
          /\ pc' = IF r.raised = "" THEN "load" ELSE "raised"
    /\ UNCHANGED <<registry, handlervars>>

\* load_commands returns and run() calls app(), lines 305-306
StartApp ==
    /\ pc = "load"
    /\ i = Len(registry)
    /\ pc' = "app"
    /\ UNCHANGED <<loadvars, error, handlervars>>

\* the application calls version, lines 29-31
InvokeVersion ==
    /\ pc = "app"
    /\ \E k \in 1..Len(commands) : commands[k].callback = "version"
    /\ echoed' = echoed + 1
    /\ pc' = "done"
    /\ UNCHANGED <<loadvars, error, frame, config_call, validation,
                   current_config, set_configs, logged, runner_started,
                   runner_finished, runner_config>>

\* the application ends without calling a command: help for an empty command
\* line (no_args_is_help, line 21) or a usage error
NoCommand ==
    /\ pc = "app"
    /\ pc' = "done"
    /\ UNCHANGED <<loadvars, error, handlervars>>

\* the application calls the run_strategy of one registered command with the
\* values bound from the command line
InvokeStrategy ==
    /\ pc = "app"
    /\ \E k \in 1..Len(commands), c \in ClusterInputs, a \in BOOLEAN,
          n \in NamespaceInputs, r \in ResourceInputs :
          /\ commands[k].callback = "run_strategy"
          /\ frame' = << [command |-> k, clusters |-> c, all_clusters |-> a,
                          namespaces |-> n, resources |-> r] >>
    /\ pc' = "Config"
    /\ UNCHANGED <<loadvars, error, config_call, validation, current_config,
                   set_configs, logged, runner_started, runner_finished,
                   runner_config, echoed>>

\* lines 238-271: the arguments are evaluated and Config validates them
CallConfig ==
    /\ pc = "Config"
    /\ LET f == frame[1]
       IN IF wildcard_raises(f.namespaces) \/ wildcard_raises(f.resources)
          THEN /\ pc' = "raised"
               /\ error' = "TypeError"
               /\ frame' = << >>
               /\ UNCHANGED <<config_call, validation>>
          ELSE /\ config_call' =
                      << config_arguments(f, commands[f.command], strategy_name) >>
               /\ \E valid \in BOOLEAN :
                      /\ validation' = IF valid THEN "ok" ELSE "failed"
                      /\ pc' = after_Config(valid)
               /\ UNCHANGED <<error, frame>>
    /\ UNCHANGED <<loadvars, current_config, set_configs, logged,
                   runner_started, runner_finished, runner_config, echoed>>

\* line 272
SetConfig ==
    /\ pc = "set_config"
    /\ current_config' = config_call
    /\ set_configs' = set_configs + 1
    /\ pc' = after_set_config
    /\ UNCHANGED <<loadvars, error, frame, config_call, validation, logged,
                   runner_started, runner_finished, runner_config, echoed>>

\* lines 273-274: the ValidationError is logged and the handler returns
LogException ==
    /\ pc = "except"
    /\ logged' = logged + 1
    /\ pc' = after_except
    /\ frame' = IF after_except = "done" THEN << >> ELSE frame
    /\ UNCHANGED <<loadvars, error, config_call, validation, current_config,
                   set_configs, runner_started, runner_finished,
                   runner_config, echoed>>

\* lines 276-277: asyncio.run starts the run, which reads the process-wide
\* configuration
RunnerStart ==
    /\ pc = "Runner"
    /\ runner_started' = runner_started + 1
    /\ runner_config' = current_config
    /\ pc' = "run"
    /\ UNCHANGED <<loadvars, error, frame, config_call, validation,
                   current_config, set_configs, logged, runner_finished,
                   echoed>>

\* line 277: the run completes, asyncio.run returns and so does the handler
RunnerFinish ==
    /\ pc = "run"
    /\ runner_finished' = runner_finished + 1
    /\ pc' = "done"
    /\ frame' = << >>
    /\ UNCHANGED <<loadvars, error, config_call, validation, current_config,
                   set_configs, logged, runner_started, runner_config, echoed>>

\* line 277: the run raises, and asyncio.run and the handler with it
RunnerRaise ==
    /\ pc = "run"
    /\ pc' = "raised"
    /\ error' = "RunnerError"
    /\ frame' = << >>
    /\ UNCHANGED <<loadvars, config_call, validation, current_config,
                   set_configs, logged, runner_started, runner_finished,
                   runner_config, echoed>>

Next ==
    \/ LoadStrategy
    \/ StartApp
    \/ NoCommand
    \/ InvokeVersion
    \/ InvokeStrategy
    \/ CallConfig
    \/ SetConfig
    \/ LogException
    \/ RunnerStart
    \/ RunnerFinish
    \/ RunnerRaise

Spec == Init /\ [][Next]_vars

(***************************************************************************)
(* Properties.                                                             *)
(***************************************************************************)
LoadErrors == {"IntrospectionError", "AttributeError", "ValueError"}

\* load_commands has returned
Loaded == pc # "load" /\ error \notin LoadErrors

\* run_strategy is running and has called Config(...)
ConfigCalled == frame # << >> /\ config_call # << >>

\* the strategy whose loop iteration registered commands[k]
StrategyOf(k) == registry[k - 1]

\* the number of fixed parameters of run_strategy: all but **strategy_args
FixedCount == Len(run_strategy_signature) - 1

\* the flags of the fixed options
FixedFlags == UNION {run_strategy_signature[k].flags :
                        k \in 1..Len(run_strategy_signature)}

\* C1: whichever command runs, the Config it builds has the strategy name of
\* the loop iteration that registered the command.
C1_ClosureCapture ==
    ConfigCalled =>
        config_call[1].strategy = StrategyOf(frame[1].command).name

\* the first of three registered commands has built its Config
C1_Witness ==
    /\ Len(registry) = 3
    /\ ConfigCalled
    /\ frame[1].command = 2
    /\ config_call[1].strategy = registry[1].name
    /\ registry[1].name # registry[3].name

\* C2: after a failed validation nothing is committed, the Runner is not
\* started, nothing is raised, and the handler has returned once the failure
\* is logged.
C2_ValidationFailure ==
    validation = "failed" =>
        /\ current_config = << >>
        /\ set_configs = 0
        /\ runner_started = 0
        /\ runner_finished = 0
        /\ error = ""
        /\ pc \in {"except", "done"}
        /\ (pc = "done" <=> logged = 1)

\* the handler has returned after a failed validation
C2_Witness ==
    validation = "failed" /\ pc = "done" /\ logged = 1 /\ frame = << >>

\* C3: after a successful validation the configuration is committed at most
\* once, the Runner is started at most once and only after the commit, with
\* the committed configuration, and the handler has returned only when the
\* run has completed.
C3_CommitThenRun ==
    validation = "ok" =>
        /\ set_configs <= 1
        /\ runner_started <= 1
        /\ (set_configs = 1 => current_config = config_call)
        /\ (set_configs = 0 => current_config = << >>)
        /\ (runner_started = 1 => set_configs = 1 /\ runner_config = config_call)
        /\ (runner_finished = 1 => runner_started = 1)
        /\ (pc = "done" =>
                set_configs = 1 /\ runner_started = 1 /\ runner_finished = 1)
        /\ logged = 0

\* the handler has returned after a completed run
C3_Witness ==
    /\ validation = "ok"
    /\ pc = "done"
    /\ runner_finished = 1
    /\ runner_config = config_call

\* C4: the clusters argument of Config is "*" when all_clusters is set and
\* the given cluster list, None included, otherwise.
C4_ClusterWildcard ==
    ConfigCalled =>
        /\ (frame[1].all_clusters => config_call[1].clusters = PyStr("*"))
        /\ (~frame[1].all_clusters =>
                config_call[1].clusters = frame[1].clusters)

\* all_clusters given together with a list of two clusters
C4_Witness ==
    /\ ConfigCalled
    /\ frame[1].all_clusters
    /\ Len(frame[1].clusters.v) = 2
    /\ config_call[1].clusters = PyStr("*")

\* C5: the namespaces and resources arguments of Config are "*" when the
\* given list contains "*" and the given list otherwise.
C5_WildcardDominates ==
    ConfigCalled =>
        /\ ("*" \in Range(frame[1].namespaces.v) =>
                config_call[1].namespaces = PyStr("*"))
        /\ ("*" \notin Range(frame[1].namespaces.v) =>
                config_call[1].namespaces = frame[1].namespaces)
        /\ ("*" \in Range(frame[1].resources.v) =>
                config_call[1].resources = PyStr("*"))
        /\ ("*" \notin Range(frame[1].resources.v) =>
                config_call[1].resources = frame[1].resources)

\* "*" together with a literal namespace, and a resource list without "*"
C5_Witness ==
    /\ ConfigCalled
    /\ frame[1].namespaces = PyList(<< "*", "foo" >>)
    /\ frame[1].resources = PyList(<< "Deployment" >>)
    /\ config_call[1].namespaces = PyStr("*")
    /\ config_call[1].resources = PyList(<< "Deployment" >>)

\* C6: the option of a schema field declared Optional[T] is annotated with
\* what __process_type gives for T.
C6_OptionalUnwrapped ==
    Loaded =>
        \A k \in 2..Len(commands) :
            \A j \in 1..Len(StrategyOf(k).fields) :
                StrategyOf(k).fields[j].type.wrap > 0 =>
                    commands[k].parameters[FixedCount + j].annotation =
                        process_type(OptionalArg(StrategyOf(k).fields[j].type)).type

\* C7: __process_type never raises while commands are registered, every
\* strategy option is annotated with one of the six primitives, and a field
\* of a type that is neither a primitive nor an Optional[T] with str.
C7_NarrowingTotal ==
    /\ error # "AttributeError"
    /\ Loaded =>
        \A k \in 2..Len(commands) :
            \A j \in 1..Len(StrategyOf(k).fields) :
                /\ commands[k].parameters[FixedCount + j].annotation \in Primitives
                /\ (StrategyOf(k).fields[j].type.wrap = 0
                        /\ StrategyOf(k).fields[j].type.base \notin Primitives =>
                    commands[k].parameters[FixedCount + j].annotation = "str")

\* C8: once load_commands has returned there is one command per strategy,
\* under its name, whose parameters are the fixed parameters of run_strategy
\* followed by one option per field of the strategy's own schema, in schema
\* order, with no parameter name used twice.
C8_OneCommandPerStrategy ==
    Loaded =>
        /\ Len(commands) = 1 + Len(registry)
        /\ \A k \in 2..Len(commands) :
              LET c == commands[k]
                  d == StrategyOf(k)
              IN /\ c.name = d.name
                 /\ c.callback = "run_strategy"
                 /\ Cardinality({m \in 1..Len(commands) :
                                    commands[m].name = d.name}) = 1
                 /\ Len(c.parameters) = FixedCount + Len(d.fields)
                 /\ SubSeq(c.parameters, 1, FixedCount) =
                       SubSeq(run_strategy_signature, 1, FixedCount)
                 /\ \A j \in 1..Len(d.fields) :
                       /\ c.parameters[FixedCount + j].name = d.fields[j].name
                       /\ c.parameters[FixedCount + j].flags =
                              {"--" \o d.fields[j].name}
                       /\ c.parameters[FixedCount + j].panel = "Strategy Settings"
                 /\ Cardinality({c.parameters[j].name : j \in 1..Len(c.parameters)})
                       = Len(c.parameters)

\* three strategies are registered, one of them with two schema fields
C8_Witness ==
    /\ pc = "app"
    /\ Len(registry) = 3
    /\ Len(commands) = 4
    /\ \E k \in 2..4 : Len(StrategyOf(k).fields) = 2

\* C9: a strategy with a schema field whose flag is a flag of a fixed option
\* makes load_commands raise, and no registered command has two parameters
\* with a common flag.
C9_FlagCollisionAborts ==
    /\ \A k \in 1..i :
          (/\ ~registry[k].raises
           /\ \E j \in 1..Len(registry[k].fields) :
                 ("--" \o registry[k].fields[j].name) \in FixedFlags)
              => pc = "raised" /\ error \in LoadErrors
    /\ \A k \in 1..Len(commands) :
          \A j, m \in 1..Len(commands[k].parameters) :
              j # m => commands[k].parameters[j].flags
                           \cap commands[k].parameters[m].flags = {}

\* C10: once the schema of a strategy has raised, load_commands and run()
\* have raised at that iteration, no command is registered for the
\* strategy, the application is not started and no handler and no Runner
\* has run.
C10_IntrospectionFailurePropagates ==
    \A k \in 1..i :
        registry[k].raises =>
            /\ pc = "raised"
            /\ error = "IntrospectionError"
            /\ i = k
            /\ \A m \in 1..Len(commands) : commands[m].name # registry[k].name
            /\ frame = << >>
            /\ config_call = << >>
            /\ set_configs = 0
            /\ runner_started = 0
            /\ echoed = 0

\* the schema of the second of three strategies has raised
C10_Witness ==
    /\ Len(registry) = 3
    /\ i = 2
    /\ registry[2].raises
    /\ pc = "raised"
    /\ error = "IntrospectionError"
    /\ Len(commands) = 2

====
